---- MODULE Spec2Model ----
(***************************************************************************)
(* The Clinical Interaction Pipeline of PAJR.Connect, as a state machine.  *)
(*                                                                         *)
(* The repository holds two App components (both in src/unnamed/part_005): *)
(*   - lines 1-286: the App that persists through supabaseService and      *)
(*     listens to the change feed; every write to `patients` is a          *)
(*     functional update.  Specification Spec.                             *)
(*   - lines 288-585: the App that writes whole patient records computed   *)
(*     from the snapshot its handler captured.  Specification SpecSnapshot.*)
(*                                                                         *)
(* React state is read at the moment an event handler is called (the       *)
(* component has re-rendered between two events), and what a handler       *)
(* captured then stays captured across its awaits.  Each call of           *)
(* handleMessageSend is a process: calls[c].pc is the await it is          *)
(* suspended at.                                                           *)
(*                                                                         *)
(* JavaScript values: strings are strings, numbers that the pipeline only  *)
(* carries (vital values, confidence scores) are their decimal literals,   *)
(* null and undefined are the strings NULL and Undefined.                  *)
(***************************************************************************)
EXTENDS Integers, Sequences, FiniteSets, TLC

VARIABLES
    patients,           \* useState<Patient[]>: patient id -> record
    currentUser,        \* useState<User | null>
    activePatientId,    \* useState<string | null>
    isProcessing,       \* useState(false)
    sub,                \* the change-feed subscriptions that are live
    isUsingPlaceholder, \* supabaseService configuration
    now,                \* the wall clock read by Date.now()
    calls,              \* the calls of handleMessageSend, by call number
    redelivered         \* bookkeeping, per patient: the ids of the rows the
                        \* feed delivered while a message made by a call
                        \* had their id

vars == <<patients, currentUser, activePatientId, isProcessing, sub,
          isUsingPlaceholder, now, calls, redelivered>>

----------------------------------------------------------------------------
(* Bounds of the model *)

MaxCalls == 2

MaxTicks == 1

\* calls of handleMessageSend of the snapshot-writing App
MaxCallsSnapshot == 3

\* rows the change feed may add to the records
MaxRows == 1

----------------------------------------------------------------------------
(* Values *)

NULL == "null"

Undefined == "undefined"

\* `undefined` where the type is a list (insight.reasoning = data.reasoning)
UndefinedList == <<Undefined>>

\* Date.now() when the module was loaded
T0 == 100000000

Clock == T0 .. (T0 + MaxTicks)

CallIds == 1 .. MaxCalls

CallIdsSnapshot == 1 .. MaxCallsSnapshot

\* Date.prototype.toISOString, on the model's clock
toISOString(t) == "T" \o ToString(t)

RiskLevel == {"LOW", "MEDIUM", "HIGH", "CRITICAL"}

VitalTypes == {"BP_SYSTOLIC", "BP_DIASTOLIC", "GLUCOSE", "SPO2", "HEART_RATE",
               "WEIGHT", "TEMP", "URINE_OUTPUT"}

Vital(type, value, unit, timestamp) ==
    [type |-> type, value |-> value, unit |-> unit, timestamp |-> timestamp]

\* A Message; `call` is bookkeeping: the call of handleMessageSend that
\* created it (0: not created by a call)
Msg(id, sender, type, content, timestamp, call) ==
    [id |-> id, sender |-> sender, type |-> type, content |-> content,
     timestamp |-> timestamp, call |-> call]

Insight(summary, riskLevel, confidenceScore, themes, reasoning, missingData, action) ==
    [summary |-> summary, riskLevel |-> riskLevel,
     confidenceScore |-> confidenceScore, themes |-> themes,
     reasoning |-> reasoning, missingData |-> missingData,
     clinicalActionSuggestion |-> action]

\* A Patient, reduced to the fields the pipeline reads or writes;
\* `insightCall` is bookkeeping: the call whose analysis produced
\* latestInsight (0: the provisioned insight)
Patient(id, doctor, messages, vitals, risk, flagged, insight, last) ==
    [id |-> id, assignedDoctorId |-> doctor, messages |-> messages,
     vitalsHistory |-> vitals, riskStatus |-> risk, isFlagged |-> flagged,
     latestInsight |-> insight, lastInteraction |-> last, insightCall |-> 0]

----------------------------------------------------------------------------
(* The provisioned records *)

MOCK_PATIENTS ==
    ("P-1024" :> Patient("P-1024", "D-001",
        << Msg("m1", "SYSTEM", "TEXT",
               "Welcome to PAJR. Please share your readings via WhatsApp or here.",
               toISOString(T0 - 1000000), 0) >>,
        << Vital("GLUCOSE", "140", "mg/dL", "2023-10-22T08:00:00Z"),
           Vital("GLUCOSE", "165", "mg/dL", "2023-10-23T08:00:00Z"),
           Vital("GLUCOSE", "155", "mg/dL", "2023-10-24T08:00:00Z"),
           Vital("BP_SYSTOLIC", "135", "mmHg", "2023-10-24T08:00:00Z"),
           Vital("BP_DIASTOLIC", "88", "mmHg", "2023-10-24T08:00:00Z"),
           Vital("URINE_OUTPUT", "1400", "ml", "2023-10-24T08:00:00Z"),
           Vital("HEART_RATE", "72", "bpm", "2023-10-24T08:00:00Z"),
           Vital("TEMP", "98.6", "Â°F", "2023-10-24T08:00:00Z") >>,
        "MEDIUM", FALSE,
        Insight("Glucose trending upwards over last 48 hours. Spiked to 165 fasting. Likely dietary slip or medication gap.",
                "MEDIUM", "0.88",
                <<"Glycemic Instability", "High Carb Pattern">>,
                <<"Fasting glucose > 150mg/dL", "Steps decreased by 40% on Wednesday">>,
                <<"Latest HbA1c", "Evening BP readings">>,
                "Counsel patient on carbohydrate intake. Ask for medication adherence check."),
        toISOString(T0)))
    @@
    ("P-5050" :> Patient("P-5050", "D-001",
        << Msg("crit1", "PATIENT", "TEXT", "Feeling slightly dizzy since morning.",
               toISOString(T0), 0) >>,
        << Vital("BP_SYSTOLIC", "168", "mmHg", toISOString(T0)),
           Vital("BP_DIASTOLIC", "95", "mmHg", toISOString(T0)),
           Vital("HEART_RATE", "98", "bpm", toISOString(T0)) >>,
        "CRITICAL", TRUE,
        Insight("Patient reporting dizziness accompanied by BP spike (168/95). Immediate clinician review recommended.",
                "CRITICAL", "0.95",
                <<"Hypertensive Crisis", "Symptomatic">>,
                <<"BP systolic > 160", "New-onset dizziness reported via text">>,
                <<>>,
                "Immediate call to verify symptoms. Instruct to take prescribed emergency meds if available."),
        toISOString(T0)))

PatientIds == DOMAIN MOCK_PATIENTS

NoUser == [id |-> NULL, role |-> NULL]

\* handleLogin's mock mapping of a role to a user
UserOf(role) == [id |-> IF role = "PATIENT" THEN "P-1024" ELSE "D-001", role |-> role]

----------------------------------------------------------------------------
(* The analysis collaborator and its adapter *)

\* What ai.models.generateContent can come back with:
\*   reject   the promise rejects (transport error, timeout raised by the SDK)
\*   garbage  a body that is no JSON
\*   empty    no body text (response.text is falsy, so "{}" is parsed)
\*   object   a JSON object; `has` is the set of fields it holds
Response(kind, has, risk, conf, vitals, reply) ==
    [kind |-> kind, has |-> has, summary |-> "summary of the message",
     riskLevel |-> risk, confidenceScore |-> conf,
     themes |-> <<"theme">>, reasoning |-> <<"reason">>,
     missingData |-> <<"missing">>, clinicalActionSuggestion |-> "Schedule call",
     extractedVitals |-> vitals, suggestedResponse |-> reply]

NoResponse == Response("none", {}, Undefined, Undefined, <<>>, Undefined)

AllFields == {"summary", "riskLevel", "confidenceScore", "themes", "reasoning",
              "missingData", "clinicalActionSuggestion", "extractedVitals",
              "suggestedResponse"}

RawVital(type, value, unit) == [type |-> type, value |-> value, unit |-> unit]

\* the response of the scenario "glucose 220 this morning"
HighResponse ==
    Response("object", AllFields, "HIGH", "0.9",
             <<RawVital("GLUCOSE", "220", "mg/dL")>>, "Noted your reading of 220.")

Responses ==
    { Response("reject", {}, Undefined, Undefined, <<>>, Undefined),
      Response("garbage", {}, Undefined, Undefined, <<>>, Undefined),
      Response("empty", {}, Undefined, Undefined, <<>>, Undefined),
      HighResponse,
      Response("object", AllFields, "LOW", "0.7", <<>>, ""),
      Response("object", AllFields \ {"missingData", "clinicalActionSuggestion"},
               "CRITICAL", "0.8",
               <<RawVital("MOOD", "3", "pts"), RawVital("SPO2", "97", "%")>>,
               "A clinician will review shortly.") }

\* bodies that parse but whose mapping throws a TypeError:
\*   null       the body is the JSON value null (data.summary of null)
\*   badvitals  extractedVitals is a number ((5).map is not a function)
MalformedResponses ==
    { Response("null", {}, Undefined, Undefined, <<>>, Undefined),
      Response("badvitals", AllFields, "LOW", "0.5", <<>>, "Noted.") }

\* JSON.parse(response.text || "{}"): [throws, data], data being the
\* fields `has` of the body
ParseBody(r) ==
    CASE r.kind = "garbage" -> [throws |-> TRUE, data |-> r]
      [] r.kind = "empty"   -> [throws |-> FALSE, data |-> [r EXCEPT !.has = {}]]
      [] OTHER              -> [throws |-> FALSE, data |-> r]

\* data.f, or undefined
Field(data, f, value) == IF f \in data.has THEN value ELSE Undefined

\* data.f || dflt for list-valued f and a list default
ListOr(data, f, value, dflt) ==
    IF f \in data.has THEN value ELSE dflt

\* data.f || dflt for string-valued f ("" is falsy)
StringOr(data, f, value, dflt) ==
    IF f \in data.has /\ value # "" THEN value ELSE dflt

\* the catch block of analyzePatientInput
FallbackResult ==
    [insight |-> Insight("Error analyzing input. Manual review required.",
                         "MEDIUM", "0", <<"System Error">>,
                         <<"AI System Error - Fallback">>,
                         <<"Complete analysis failed">>, "Manual Review"),
     vitals |-> <<>>,
     suggestedResponse |->
        "We have received your message. A care coordinator will review it shortly."]

\* (data.extractedVitals || []).map(v => ({...v, timestamp}))
StampVitals(raw, t) ==
    [i \in 1 .. Len(raw) |->
        Vital(raw[i].type, raw[i].value, raw[i].unit, toISOString(t))]

\* the try block of analyzePatientInput, after the remote call returned
MapResponse(data, t) ==
    [insight |-> Insight(Field(data, "summary", data.summary),
                         Field(data, "riskLevel", data.riskLevel),
                         Field(data, "confidenceScore", data.confidenceScore),
                         ListOr(data, "themes", data.themes, <<>>),
                         ListOr(data, "reasoning", data.reasoning, UndefinedList),
                         ListOr(data, "missingData", data.missingData, <<>>),
                         StringOr(data, "clinicalActionSuggestion",
                                  data.clinicalActionSuggestion, "Monitor")),
     vitals |-> StampVitals(ListOr(data, "extractedVitals", data.extractedVitals, <<>>), t),
     suggestedResponse |-> StringOr(data, "suggestedResponse", data.suggestedResponse,
                                    "Received. Updating your care log.")]

\* the mapping of the parsed data throws (lines 83-96)
MapThrows(data) == data.kind \in {"null", "badvitals"}

\* something inside the try block throws: the remote call, JSON.parse or
\* the mapping
TryThrows(r) ==
    \/ r.kind = "reject"
    \/ ParseBody(r).throws
    \/ MapThrows(ParseBody(r).data)

\* a promise that rejects instead of resolving with a value
Raised == [raised |-> TRUE]

\* mutant: no catch block, what the try block throws reaches the caller
analyzePatientInputNoCatch(r, t) ==
    IF TryThrows(r) THEN Raised ELSE MapResponse(ParseBody(r).data, t)

\* analyzePatientInput: the value its promise resolves with, for response r
\* arriving at time t
analyzePatientInput(r, t) ==
    IF TryThrows(r) THEN FallbackResult ELSE MapResponse(ParseBody(r).data, t)

----------------------------------------------------------------------------
(* The updates of the patient collection (the functions given to setPatients) *)

\* mutant: the new message is put in front of the sequence
AppendMessageFront(prev, targetId, newMessage, t) ==
    [p \in DOMAIN prev |->
        IF p = targetId
        THEN [prev[p] EXCEPT !.messages = <<newMessage>> \o @,
                             !.lastInteraction = toISOString(t)]
        ELSE prev[p]]

\* setPatients(prev => prev.map(...)) of the optimistic append
AppendMessage(prev, targetId, newMessage, t) ==
    [p \in DOMAIN prev |->
        IF p = targetId
        THEN [prev[p] EXCEPT !.messages = Append(@, newMessage),
                             !.lastInteraction = toISOString(t)]
        ELSE prev[p]]

\* messages.some(m => m.id === id)
HasId(messages, id) == \E i \in 1 .. Len(messages) : messages[i].id = id

\* mutant: the row is appended without looking for its id
MergeRowNoCheck(messages, newMsg) == Append(messages, newMsg)

\* the change-feed callback's merge of one row into one message sequence
MergeRow(messages, newMsg) ==
    IF HasId(messages, newMsg.id) THEN messages ELSE Append(messages, newMsg)

\* a callback that merges the row into every patient's record
OnInsertEveryPatient(prev, active, payload) ==
    IF payload.kind # "insert"
    THEN prev
    ELSE [p \in DOMAIN prev |-> [prev[p] EXCEPT !.messages = MergeRow(@, payload.new)]]

\* the callback given to subscribeToMessages, subscribed for patient `active`
OnInsert(prev, active, payload) ==
    IF payload.kind # "insert"
    THEN prev
    ELSE [p \in DOMAIN prev |->
            IF p # active THEN prev[p]
            ELSE [prev[p] EXCEPT !.messages = MergeRow(@, payload.new)]]

\* mutant: only HIGH raises the flag
IsFlaggedHighOnly(riskLevel) == riskLevel = "HIGH"

\* insight.riskLevel === RiskLevel.HIGH || insight.riskLevel === RiskLevel.CRITICAL
IsFlagged(riskLevel) == riskLevel = "HIGH" \/ riskLevel = "CRITICAL"

\* mutant: the extracted readings replace the history
MergeVitalsLatestOnly(history, vitals) == vitals

\* [...p.vitalsHistory, ...vitals]
MergeVitals(history, vitals) == history \o vitals

\* mutant: the SYSTEM reply is put in front of the sequence
ApplyInsightReplyFirst(prev, targetId, systemMsg, insight, vitals, c) ==
    [p \in DOMAIN prev |->
        IF p = targetId
        THEN [prev[p] EXCEPT !.messages = <<systemMsg>> \o @,
                             !.riskStatus = insight.riskLevel,
                             !.latestInsight = insight,
                             !.vitalsHistory = MergeVitals(@, vitals),
                             !.isFlagged = IsFlagged(insight.riskLevel),
                             !.insightCall = c]
        ELSE prev[p]]

\* the order of the risk levels, lowest first; 0 for any other value
RiskRank(level) ==
    CASE level = "LOW"      -> 1
      [] level = "MEDIUM"   -> 2
      [] level = "HIGH"     -> 3
      [] level = "CRITICAL" -> 4
      [] OTHER              -> 0

\* a reducer whose risk status never goes down
ApplyInsightRatchet(prev, targetId, systemMsg, insight, vitals, c) ==
    [p \in DOMAIN prev |->
        IF p = targetId
        THEN [prev[p] EXCEPT !.messages = Append(@, systemMsg),
                             !.riskStatus = IF RiskRank(@) > RiskRank(insight.riskLevel)
                                            THEN @ ELSE insight.riskLevel,
                             !.latestInsight = insight,
                             !.vitalsHistory = MergeVitals(@, vitals),
                             !.isFlagged = IsFlagged(insight.riskLevel),
                             !.insightCall = c]
        ELSE prev[p]]

\* a reducer that sets the risk status and leaves the previous insight
ApplyInsightKeepInsight(prev, targetId, systemMsg, insight, vitals, c) ==
    [p \in DOMAIN prev |->
        IF p = targetId
        THEN [prev[p] EXCEPT !.messages = Append(@, systemMsg),
                             !.riskStatus = insight.riskLevel,
                             !.vitalsHistory = MergeVitals(@, vitals),
                             !.isFlagged = IsFlagged(insight.riskLevel),
                             !.insightCall = c]
        ELSE prev[p]]

\* a reducer that leaves the extracted vitals for a later update
ApplyInsightWithoutVitals(prev, targetId, systemMsg, insight, vitals, c) ==
    [p \in DOMAIN prev |->
        IF p = targetId
        THEN [prev[p] EXCEPT !.messages = Append(@, systemMsg),
                             !.riskStatus = insight.riskLevel,
                             !.latestInsight = insight,
                             !.isFlagged = IsFlagged(insight.riskLevel),
                             !.insightCall = c]
        ELSE prev[p]]

\* a reducer that applies the result to whoever is active when it arrives
ApplyInsightToActive(prev, targetId, systemMsg, insight, vitals, c) ==
    [p \in DOMAIN prev |->
        IF p = (IF activePatientId # NULL THEN activePatientId ELSE targetId)
        THEN [prev[p] EXCEPT !.messages = Append(@, systemMsg),
                             !.riskStatus = insight.riskLevel,
                             !.latestInsight = insight,
                             !.vitalsHistory = MergeVitals(@, vitals),
                             !.isFlagged = IsFlagged(insight.riskLevel),
                             !.insightCall = c]
        ELSE prev[p]]

\* setPatients(prev => prev.map(...)) applying an analysis result
ApplyInsight(prev, targetId, systemMsg, insight, vitals, c) ==
    [p \in DOMAIN prev |->
        IF p = targetId
        THEN [prev[p] EXCEPT !.messages = Append(@, systemMsg),
                             !.riskStatus = insight.riskLevel,
                             !.latestInsight = insight,
                             !.vitalsHistory = MergeVitals(@, vitals),
                             !.isFlagged = IsFlagged(insight.riskLevel),
                             !.insightCall = c]
        ELSE prev[p]]

----------------------------------------------------------------------------
(* Session, subscription and clock *)

\* no subscription is live
NoSub == {}

\* subscribeToMessages: the handle it returns
subscribeToMessages(patientId) ==
    [patientId |-> patientId,
     kind |-> IF isUsingPlaceholder THEN "placeholder" ELSE "channel"]

\* a cleanup that leaves every subscription live
TeardownNothing(live, handle) == live

\* the effect's cleanup, sub?.unsubscribe?.(): the live subscriptions it
\* leaves; the optional chaining skips the call when `sub` is undefined
\* or has no unsubscribe member
Teardown(live, handle) ==
    IF handle.kind \in {"undefined", "bare"} THEN live
    ELSE live \ {handle}

\* the cleanup React runs for the effect instance of `oldId`: the early
\* return for no active patient registers no cleanup
Cleanup(live, oldId) ==
    IF oldId = NULL THEN live
    ELSE Teardown(live, subscribeToMessages(oldId))

\* the effect on [activePatientId]: clean up, then subscribe for the new id
SubscriptionEffect(newId) ==
    IF newId = activePatientId THEN sub
    ELSE IF newId = NULL THEN Cleanup(sub, activePatientId)
    ELSE Cleanup(sub, activePatientId) \cup {subscribeToMessages(newId)}

\* the patients a doctor's dashboard lists
MyPatients == {p \in DOMAIN patients : patients[p].assignedDoctorId = currentUser.id}

\* a call's frame: where it is suspended and what it captured; `response`
\* is what the collaborator answered this call with
NoCall == [pc |-> "idle", targetId |-> NULL, senderRole |-> NULL, type |-> NULL,
           content |-> NULL, vitals |-> <<>>, response |-> NoResponse]

Started == {c \in CallIds : calls[c].pc # "idle"}

Init ==
    /\ patients = MOCK_PATIENTS
    /\ currentUser = NoUser
    /\ activePatientId = NULL
    /\ isProcessing = FALSE
    /\ sub = NoSub
    /\ isUsingPlaceholder \in BOOLEAN
    /\ now = T0
    /\ calls = [c \in CallIds |-> NoCall]
    /\ redelivered = [p \in PatientIds |-> {}]

Tick ==
    /\ now < T0 + MaxTicks
    /\ now' = now + 1
    /\ UNCHANGED <<patients, currentUser, activePatientId, isProcessing, sub,
                   isUsingPlaceholder, calls, redelivered>>

handleLogin(role) ==
    /\ currentUser = NoUser
    /\ currentUser' = UserOf(role)
    /\ activePatientId' = IF role = "PATIENT" THEN "P-1024" ELSE activePatientId
    /\ sub' = SubscriptionEffect(activePatientId')
    /\ UNCHANGED <<patients, isProcessing, isUsingPlaceholder, now, calls, redelivered>>

handleLogout ==
    /\ currentUser # NoUser
    /\ currentUser' = NoUser
    /\ activePatientId' = NULL
    /\ sub' = SubscriptionEffect(NULL)
    /\ UNCHANGED <<patients, isProcessing, isUsingPlaceholder, now, calls, redelivered>>

onSelectPatient(id) ==
    /\ currentUser.role = "DOCTOR"
    /\ id \in MyPatients \cup {NULL}
    /\ activePatientId' = id
    /\ sub' = SubscriptionEffect(id)
    /\ UNCHANGED <<patients, currentUser, isProcessing, isUsingPlaceholder, now,
                   calls, redelivered>>

----------------------------------------------------------------------------
(* The change feed *)

FeedIds == {ToString(T0 + 1)}

Payload(kind, id) ==
    [kind |-> kind,
     new |-> Msg(id, "PATIENT", "TEXT", "row", toISOString(T0), 0)]

Payloads == {Payload("null", NULL), Payload("nonew", NULL)}
            \cup {Payload("insert", id) : id \in FeedIds}

\* a message made by a call of handleMessageSend has this id
HasLocal(messages, id) ==
    \E i \in 1 .. Len(messages) : messages[i].id = id /\ messages[i].call # 0

\* the rows the change feed has added so far
RowsAdded ==
    UNION {{<<p, i>> : i \in {j \in DOMAIN patients[p].messages :
                                 /\ j > Len(MOCK_PATIENTS[p].messages)
                                 /\ patients[p].messages[j].call = 0}}
           : p \in PatientIds}

\* an INSERT event reaches the subscribed callback
FeedInsert(payload) ==
    \E h \in sub :
        /\ h.kind = "channel"
        /\ (payload.kind = "insert" /\ ~HasId(patients[h.patientId].messages, payload.new.id))
              => Cardinality(RowsAdded) < MaxRows
        /\ patients' = OnInsert(patients, h.patientId, payload)
        /\ redelivered' =
              IF payload.kind = "insert" /\ HasLocal(patients[h.patientId].messages, payload.new.id)
              THEN [redelivered EXCEPT ![h.patientId] = @ \cup {payload.new.id}]
              ELSE redelivered
        /\ UNCHANGED <<currentUser, activePatientId, isProcessing, sub,
                       isUsingPlaceholder, now, calls>>

----------------------------------------------------------------------------
(* handleMessageSend of the persisting App (part_005 lines 147-238) *)

\* activePatientId || (currentUser?.role === 'PATIENT' ? currentUser.id : null)
TargetId ==
    IF activePatientId # NULL THEN activePatientId
    ELSE IF currentUser.role = "PATIENT" THEN currentUser.id
    ELSE NULL

\* what the user interface lets the signed-in user send: the patient's text
\* input is disabled while isProcessing, the uploads are not; the doctor's
\* chat box exists while a patient is selected and sends a text or, in the
\* dashboard whose attach input has a handler, an image
CanSend(senderRole, type) ==
    \/ /\ senderRole = "PATIENT"
       /\ currentUser.role = "PATIENT"
       /\ type = "TEXT" => ~isProcessing
    \/ /\ senderRole = "DOCTOR"
       /\ currentUser.role = "DOCTOR"
       /\ activePatientId # NULL
       /\ type \in {"TEXT", "IMAGE"}

ContentOf(type) ==
    CASE type = "TEXT"  -> "glucose 220 this morning"
      [] type = "IMAGE" -> "blob:image"
      [] OTHER          -> "https://example.com/file.pdf"

\* the outcomes of a write to the store: the placeholder configuration
\* skips the write; otherwise it succeeds, reports an error or throws
WriteOutcomes == IF isUsingPlaceholder THEN {"skipped"} ELSE {"ok", "error", "throw"}

\* The call up to its first await: the message is built and appended, and
\* saveMessage is started.
Submit(c, type, senderRole) ==
    /\ calls[c].pc = "idle"
    /\ \A d \in CallIds : d < c => calls[d].pc # "idle"
    /\ CanSend(senderRole, type)
    /\ TargetId # NULL
    /\ LET targetId == TargetId
           newMessage == Msg(ToString(now), senderRole, type, ContentOf(type),
                             toISOString(now), c)
       IN /\ patients' = AppendMessage(patients, targetId, newMessage, now)
          /\ calls' = [calls EXCEPT ![c] =
                          [pc |-> "saveMessage", targetId |-> targetId,
                           senderRole |-> senderRole, type |-> type,
                           content |-> ContentOf(type), vitals |-> <<>>,
                           response |-> NoResponse]]
    /\ UNCHANGED <<currentUser, activePatientId, isProcessing, sub,
                   isUsingPlaceholder, now, redelivered>>

\* mutant: no return for a doctor's message
AfterSaveMessageAnyRole(c, outcome) ==
    /\ calls[c].pc = "saveMessage"
    /\ outcome \in WriteOutcomes
    /\ isProcessing' = TRUE
    /\ calls' = [calls EXCEPT ![c].pc =
                    IF calls[c].type = "TEXT" THEN "analyze" ELSE "timer"]
    /\ UNCHANGED <<patients, currentUser, activePatientId, sub,
                   isUsingPlaceholder, now, redelivered>>

\* mutant: no try/catch around saveMessage, a throw ends the call
AfterSaveMessageUncaught(c, outcome) ==
    /\ calls[c].pc = "saveMessage"
    /\ outcome \in WriteOutcomes
    /\ IF calls[c].senderRole = "DOCTOR" \/ outcome = "throw"
       THEN /\ calls' = [calls EXCEPT ![c].pc = "done"]
            /\ UNCHANGED isProcessing
       ELSE /\ isProcessing' = TRUE
            /\ calls' = [calls EXCEPT ![c].pc =
                            IF calls[c].type = "TEXT" THEN "analyze" ELSE "timer"]
    /\ UNCHANGED <<patients, currentUser, activePatientId, sub,
                   isUsingPlaceholder, now, redelivered>>

\* saveMessage settled (a throw is caught): a doctor's call ends; a patient's
\* text starts the analysis; any other kind starts the 1500 ms timer.
\* patients.find(p => p.id === targetId) (lines 185-189) always finds the
\* record: no record is ever removed and targetId was taken from them.
AfterSaveMessage(c, outcome) ==
    /\ calls[c].pc = "saveMessage"
    /\ outcome \in WriteOutcomes
    /\ IF calls[c].senderRole = "DOCTOR"
       THEN /\ calls' = [calls EXCEPT ![c].pc = "done"]
            /\ UNCHANGED isProcessing
       ELSE /\ isProcessing' = TRUE
            /\ calls' = [calls EXCEPT ![c].pc =
                            IF calls[c].type = "TEXT" THEN "analyze" ELSE "timer"]
    /\ UNCHANGED <<patients, currentUser, activePatientId, sub,
                   isUsingPlaceholder, now, redelivered>>

\* The collaborator answered call c with r: the continuation of
\* analyzePatientInput maps the answer, stamps the vitals with the clock of
\* this moment and returns, which resolves the promise the handler awaits.
AnalysisReturned(c, r) ==
    /\ calls[c].pc = "analyze"
    /\ calls' = [calls EXCEPT ![c].pc = "resolved",
                              ![c].vitals = analyzePatientInput(r, now).vitals,
                              ![c].response = r]
    /\ UNCHANGED <<patients, currentUser, activePatientId, isProcessing, sub,
                   isUsingPlaceholder, now, redelivered>>

\* the value the analysis of call frame f resolved with: insight and reply
\* do not depend on the clock, the vitals were stamped when it returned
Resolved(f) == [analyzePatientInput(f.response, T0) EXCEPT !.vitals = f.vitals]

\* The handler's continuation after await analyzePatientInput: the SYSTEM
\* reply is built with the clock of this moment, the result is applied to
\* the record, and the reply's saveMessage is started.
AfterAnalysis(c) ==
    /\ calls[c].pc = "resolved"
    /\ LET res == Resolved(calls[c])
           systemMsg == Msg(ToString(now + 1), "SYSTEM", "TEXT",
                            res.suggestedResponse, toISOString(now), c)
       IN /\ patients' = ApplyInsight(patients, calls[c].targetId, systemMsg,
                                      res.insight, res.vitals, c)
          /\ calls' = [calls EXCEPT ![c].pc = "saveSystem"]
    /\ UNCHANGED <<currentUser, activePatientId, isProcessing, sub,
                   isUsingPlaceholder, now, redelivered>>

\* the reply's saveMessage settled: saveVitals follows when vitals were
\* extracted and the write did not throw; otherwise the call ends
AfterSaveSystem(c, outcome) ==
    /\ calls[c].pc = "saveSystem"
    /\ outcome \in WriteOutcomes
    /\ IF Len(calls[c].vitals) > 0 /\ outcome # "throw"
       THEN /\ calls' = [calls EXCEPT ![c].pc = "saveVitals"]
            /\ UNCHANGED isProcessing
       ELSE /\ calls' = [calls EXCEPT ![c].pc = "done"]
            /\ isProcessing' = FALSE
    /\ UNCHANGED <<patients, currentUser, activePatientId, sub,
                   isUsingPlaceholder, now, redelivered>>

\* saveVitals settled: finally { setIsProcessing(false) }
AfterSaveVitals(c, outcome) ==
    /\ calls[c].pc = "saveVitals"
    /\ outcome \in WriteOutcomes
    /\ calls' = [calls EXCEPT ![c].pc = "done"]
    /\ isProcessing' = FALSE
    /\ UNCHANGED <<patients, currentUser, activePatientId, sub,
                   isUsingPlaceholder, now, redelivered>>

\* setTimeout(() => setIsProcessing(false), 1500)
TimerFired(c) ==
    /\ calls[c].pc = "timer"
    /\ calls' = [calls EXCEPT ![c].pc = "done"]
    /\ isProcessing' = FALSE
    /\ UNCHANGED <<patients, currentUser, activePatientId, sub,
                   isUsingPlaceholder, now, redelivered>>

Next ==
    \/ Tick
    \/ \E role \in {"PATIENT", "DOCTOR"} : handleLogin(role)
    \/ handleLogout
    \/ \E id \in PatientIds \cup {NULL} : onSelectPatient(id)
    \/ \E payload \in Payloads : FeedInsert(payload)
    \/ \E c \in CallIds, type \in {"TEXT", "IMAGE", "DOCUMENT"},
          senderRole \in {"PATIENT", "DOCTOR"} : Submit(c, type, senderRole)
    \/ \E c \in CallIds, outcome \in {"skipped", "ok", "error", "throw"} :
          \/ AfterSaveMessage(c, outcome)
          \/ AfterSaveSystem(c, outcome)
          \/ AfterSaveVitals(c, outcome)
    \/ \E c \in CallIds, r \in Responses : AnalysisReturned(c, r)
    \/ \E c \in CallIds : AfterAnalysis(c)
    \/ \E c \in CallIds : TimerFired(c)

Spec == Init /\ [][Next]_vars

\* The analysis resolves, and so does saveMessage where it returns without
\* touching the network (supabaseService.ts lines 107-110); a write that
\* goes to the network may stay pending.
AnalysisSettles ==
    \A c \in CallIds :
        /\ WF_vars(AfterSaveMessage(c, "skipped"))
        /\ WF_vars(\E r \in Responses : AnalysisReturned(c, r))
        /\ WF_vars(AfterAnalysis(c))

SpecAnalysisSettles == Spec /\ AnalysisSettles

----------------------------------------------------------------------------
(* The handler called by any caller: also with no target, and with the     *)
(* collaborator's bodies whose mapping throws                              *)

\* handleMessageSend while there is no target: if (!targetId) return
SubmitNoTarget(c, type, senderRole) ==
    /\ calls[c].pc = "idle"
    /\ \A d \in CallIds : d < c => calls[d].pc # "idle"
    /\ currentUser.role = senderRole
    /\ TargetId = NULL
    /\ calls' = [calls EXCEPT ![c] =
                    [NoCall EXCEPT !.pc = "returned", !.senderRole = senderRole,
                                   !.type = type, !.content = ContentOf(type)]]
    /\ UNCHANGED <<patients, currentUser, activePatientId, isProcessing, sub,
                   isUsingPlaceholder, now, redelivered>>

NextHandler ==
    \/ Next
    \/ \E c \in CallIds, type \in {"TEXT", "IMAGE", "DOCUMENT"},
          senderRole \in {"PATIENT", "DOCTOR"} : SubmitNoTarget(c, type, senderRole)
    \/ \E c \in CallIds, r \in MalformedResponses : AnalysisReturned(c, r)

SpecHandler == Init /\ [][NextHandler]_vars

----------------------------------------------------------------------------
(* The persisting App while every write to the store fails *)

FailedWrites == {"error", "throw"}

InitStoreFails == Init /\ ~isUsingPlaceholder

NextStoreFails ==
    \/ Tick
    \/ \E role \in {"PATIENT", "DOCTOR"} : handleLogin(role)
    \/ handleLogout
    \/ \E id \in PatientIds \cup {NULL} : onSelectPatient(id)
    \/ \E payload \in Payloads : FeedInsert(payload)
    \/ \E c \in CallIds, type \in {"TEXT", "IMAGE", "DOCUMENT"},
          senderRole \in {"PATIENT", "DOCTOR"} : Submit(c, type, senderRole)
    \/ \E c \in CallIds, outcome \in FailedWrites :
          \/ AfterSaveMessage(c, outcome)
          \/ AfterSaveSystem(c, outcome)
          \/ AfterSaveVitals(c, outcome)
    \/ \E c \in CallIds, r \in Responses : AnalysisReturned(c, r)
    \/ \E c \in CallIds : AfterAnalysis(c)
    \/ \E c \in CallIds : TimerFired(c)

SpecStoreFails == InitStoreFails /\ [][NextStoreFails]_vars

----------------------------------------------------------------------------
(* The App that writes captured snapshots (part_005 lines 288-585) *)

MOCK_PATIENTS_Snapshot ==
    ("P-1024" :> Patient("P-1024", "D-001",
        << Msg("m1", "SYSTEM", "TEXT",
               "Welcome back, Sarah. Please share your morning readings.",
               toISOString(T0 - 86400000), 0),
           Msg("m2", "PATIENT", "TEXT", "Yesterday sugar was 155.",
               toISOString(T0 - 80000000), 0) >>,
        << Vital("GLUCOSE", "140", "mg/dL", "2023-10-22T08:00:00Z"),
           Vital("GLUCOSE", "142", "mg/dL", "2023-10-23T08:00:00Z"),
           Vital("GLUCOSE", "140", "mg/dL", "2023-10-24T08:00:00Z"),
           Vital("BP_SYSTOLIC", "125", "mmHg", "2023-10-24T08:00:00Z"),
           Vital("BP_DIASTOLIC", "82", "mmHg", "2023-10-24T08:00:00Z"),
           Vital("HEART_RATE", "78", "bpm", "2023-10-24T08:00:00Z"),
           Vital("TEMP", "98.4", "°F", "2023-10-24T08:00:00Z"),
           Vital("URINE_OUTPUT", "1200", "ml", "2023-10-24T08:00:00Z"),
           Vital("GLUCOSE", "145", "mg/dL", "2023-10-25T08:00:00Z"),
           Vital("BP_SYSTOLIC", "128", "mmHg", "2023-10-25T08:00:00Z"),
           Vital("HEART_RATE", "80", "bpm", "2023-10-25T08:00:00Z"),
           Vital("GLUCOSE", "160", "mg/dL", "2023-10-26T08:00:00Z"),
           Vital("BP_SYSTOLIC", "130", "mmHg", "2023-10-26T08:00:00Z"),
           Vital("HEART_RATE", "82", "bpm", "2023-10-26T08:00:00Z"),
           Vital("GLUCOSE", "155", "mg/dL", "2023-10-27T08:00:00Z") >>,
        "MEDIUM", FALSE,
        Insight("Patient showing consistently elevated glucose levels (140-160 range). Compliance with medication needs verification.",
                "MEDIUM", "0.92",
                <<"Glycemic Instability", "Routine Check">>,
                <<"3-day trend of fasting glucose > 140 mg/dL", "BP stable but borderline">>,
                <<"Post-prandial readings", "Dietary log">>,
                "Request post-prandial readings for next 2 days."),
        toISOString(T0)))
    @@
    ("P-1099" :> Patient("P-1099", "D-002", <<>>,
        << Vital("BP_SYSTOLIC", "130", "mmHg", "2023-10-25T08:00:00Z"),
           Vital("GLUCOSE", "100", "mg/dL", "2023-10-25T08:00:00Z") >>,
        "LOW", FALSE,
        Insight("Stable recovery. Vitals within target range.", "LOW", "0.98",
                <<"Recovery", "Stable">>,
                <<"BP controlled under 135/85", "No reported symptoms">>,
                <<>>,
                "Continue standard monitoring."),
        toISOString(T0)))

\* the patient the handler works on: the signed-in patient is always
\* P-1024, a doctor works on the selected patient
activePatient ==
    IF currentUser.role = "PATIENT" THEN "P-1024"
    ELSE IF currentUser.role = "DOCTOR" /\ activePatientId \in DOMAIN patients
         THEN activePatientId
    ELSE NULL

\* setPatients(prev => prev.map(p => p.id === id ? record : p))
ReplaceRecord(prev, id, record) ==
    [p \in DOMAIN prev |-> IF p = id THEN record ELSE prev[p]]

\* updatedPatient: the captured record with the new message appended
UpdatedPatient(targetPatient, newMessage, t) ==
    [targetPatient EXCEPT !.messages = Append(@, newMessage),
                          !.lastInteraction = toISOString(t)]

\* finalPatient of the text branch
FinalPatient(updatedPatient, systemResponse, insight, vitals, c) ==
    [updatedPatient EXCEPT !.messages = Append(@, systemResponse),
                           !.riskStatus = insight.riskLevel,
                           !.latestInsight = insight,
                           !.vitalsHistory = MergeVitals(@, vitals),
                           !.isFlagged = IsFlagged(insight.riskLevel),
                           !.insightCall = c]

\* the acknowledgment of an upload
AckContent(type) ==
    IF type = "DOCUMENT" THEN "Document received and filed in Clinical Records."
    ELSE "Image received. Adding to clinical record."

\* finalPatient of the upload branch
AckPatient(updatedPatient, systemResponse) ==
    [updatedPatient EXCEPT !.messages = Append(@, systemResponse)]

CanSendSnapshot(senderRole, type) ==
    \/ /\ senderRole = "PATIENT"
       /\ currentUser.role = "PATIENT"
       /\ type = "TEXT" => ~isProcessing
    \/ /\ senderRole = "DOCTOR"
       /\ currentUser.role = "DOCTOR"
       /\ activePatientId # NULL
       /\ type \in {"TEXT", "IMAGE"}

InitSnapshot ==
    /\ patients = MOCK_PATIENTS_Snapshot
    /\ currentUser = NoUser
    /\ activePatientId = NULL
    /\ isProcessing = FALSE
    /\ sub = NoSub
    /\ isUsingPlaceholder = TRUE
    /\ now = T0
    /\ calls = [c \in CallIdsSnapshot |-> NoCall]
    /\ redelivered = [p \in DOMAIN MOCK_PATIENTS_Snapshot |-> {}]

handleLoginSnapshot(role) ==
    /\ currentUser = NoUser
    /\ currentUser' = UserOf(role)
    /\ activePatientId' = IF role = "PATIENT" THEN "P-1024" ELSE NULL
    /\ UNCHANGED <<patients, isProcessing, sub, isUsingPlaceholder, now, calls,
                   redelivered>>

handleLogoutSnapshot ==
    /\ currentUser # NoUser
    /\ currentUser' = NoUser
    /\ activePatientId' = NULL
    /\ UNCHANGED <<patients, isProcessing, sub, isUsingPlaceholder, now, calls,
                   redelivered>>

onSelectPatientSnapshot(id) ==
    /\ currentUser.role = "DOCTOR"
    /\ id \in MyPatients \cup {NULL}
    /\ activePatientId' = id
    /\ UNCHANGED <<patients, currentUser, isProcessing, sub, isUsingPlaceholder,
                   now, calls, redelivered>>

\* The call up to its await: the record is captured, the message appended to
\* the capture, the capture written; a patient's text starts the analysis,
\* a patient's upload starts the 1500 ms timer.
SubmitSnapshot(c, type, senderRole) ==
    /\ calls[c].pc = "idle"
    /\ \A d \in CallIdsSnapshot : d < c => calls[d].pc # "idle"
    /\ CanSendSnapshot(senderRole, type)
    /\ activePatient # NULL
    /\ LET targetPatient == patients[activePatient]
           newMessage == Msg(ToString(now), senderRole, type, ContentOf(type),
                             toISOString(now), c)
           updatedPatient == UpdatedPatient(targetPatient, newMessage, now)
       IN /\ patients' = ReplaceRecord(patients, targetPatient.id, updatedPatient)
          /\ calls' = [calls EXCEPT ![c] =
                          [pc |-> IF senderRole = "DOCTOR" THEN "done"
                                  ELSE IF type = "TEXT" THEN "analyze" ELSE "timer",
                           targetId |-> targetPatient.id,
                           senderRole |-> senderRole, type |-> type,
                           content |-> ContentOf(type), vitals |-> <<>>,
                           response |-> NoResponse,
                           updatedPatient |-> updatedPatient]]
    /\ isProcessing' = IF senderRole = "DOCTOR" THEN isProcessing ELSE TRUE
    /\ UNCHANGED <<currentUser, activePatientId, sub, isUsingPlaceholder, now,
                   redelivered>>

\* The collaborator answered call c with r: analyzePatientInput maps the
\* answer, stamps the vitals with the clock of this moment and returns.
AnalysisReturnedSnapshot(c, r) ==
    /\ calls[c].pc = "analyze"
    /\ calls' = [calls EXCEPT ![c].pc = "resolved",
                              ![c].vitals = analyzePatientInput(r, now).vitals,
                              ![c].response = r]
    /\ UNCHANGED <<patients, currentUser, activePatientId, isProcessing, sub,
                   isUsingPlaceholder, now, redelivered>>

\* The handler's continuation after await analyzePatientInput: the final
\* record is computed from the captured one, with the clock of this moment
\* in the reply, and written
AfterAnalysisSnapshot(c) ==
    /\ calls[c].pc = "resolved"
    /\ LET res == Resolved(calls[c])
           systemResponse == Msg(ToString(now + 1), "SYSTEM", "TEXT",
                                 res.suggestedResponse, toISOString(now), c)
           finalPatient == FinalPatient(calls[c].updatedPatient, systemResponse,
                                        res.insight, res.vitals, c)
       IN /\ patients' = ReplaceRecord(patients, calls[c].targetId, finalPatient)
          /\ calls' = [calls EXCEPT ![c].pc = "done"]
    /\ isProcessing' = FALSE
    /\ UNCHANGED <<currentUser, activePatientId, sub, isUsingPlaceholder, now,
                   redelivered>>

\* the 1500 ms timer of an upload fired
TimerFiredSnapshot(c) ==
    /\ calls[c].pc = "timer"
    /\ LET systemResponse == Msg(ToString(now + 1), "SYSTEM", "TEXT",
                                 AckContent(calls[c].type), toISOString(now), c)
           finalPatient == AckPatient(calls[c].updatedPatient, systemResponse)
       IN patients' = ReplaceRecord(patients, calls[c].targetId, finalPatient)
    /\ calls' = [calls EXCEPT ![c].pc = "done"]
    /\ isProcessing' = FALSE
    /\ UNCHANGED <<currentUser, activePatientId, sub, isUsingPlaceholder, now,
                   redelivered>>

NextSnapshot ==
    \/ Tick
    \/ \E role \in {"PATIENT", "DOCTOR"} : handleLoginSnapshot(role)
    \/ handleLogoutSnapshot
    \/ \E id \in DOMAIN patients \cup {NULL} : onSelectPatientSnapshot(id)
    \/ \E c \in CallIdsSnapshot, type \in {"TEXT", "IMAGE", "DOCUMENT"},
          senderRole \in {"PATIENT", "DOCTOR"} : SubmitSnapshot(c, type, senderRole)
    \/ \E c \in CallIdsSnapshot, r \in Responses : AnalysisReturnedSnapshot(c, r)
    \/ \E c \in CallIdsSnapshot : AfterAnalysisSnapshot(c)
    \/ \E c \in CallIdsSnapshot : TimerFiredSnapshot(c)

SpecSnapshot == InitSnapshot /\ [][NextSnapshot]_vars

----------------------------------------------------------------------------
(* Properties *)

IsPrefix(s, t) == Len(s) <= Len(t) /\ SubSeq(t, 1, Len(s)) = s

\* the positions in p's record of the message call c submitted
SubmittedAt(p, c) ==
    {i \in DOMAIN patients[p].messages :
        /\ patients[p].messages[i].call = c
        /\ patients[p].messages[i].sender # "SYSTEM"}

\* the positions in p's record of the SYSTEM replies made for call c
RepliesAt(p, c) ==
    {i \in DOMAIN patients[p].messages :
        /\ patients[p].messages[i].call = c
        /\ patients[p].messages[i].sender = "SYSTEM"}

\* the positions in p's record of the rows the change feed added
RowsAt(p) ==
    {i \in DOMAIN patients[p].messages :
        /\ i > Len(MOCK_PATIENTS[p].messages)
        /\ patients[p].messages[i].call = 0}

\* C1: the messages submitted to one patient stand in that patient's record
\* in the order of the submit calls (calls are numbered in call order),
\* each exactly once, whatever analysis completions and change-feed rows
\* were interleaved.
C1_SubmitOrder ==
    \A c \in Started :
        /\ Cardinality(SubmittedAt(calls[c].targetId, c)) = 1
        /\ \A d \in Started :
              (c < d /\ calls[d].targetId = calls[c].targetId) =>
                 \A i \in SubmittedAt(calls[c].targetId, c),
                    j \in SubmittedAt(calls[c].targetId, d) : i < j

\* two submits to P-1024 with a SYSTEM reply and a change-feed row between them
C1_Witness ==
    /\ {1, 2} \subseteq Started
    /\ calls[1].targetId = "P-1024" /\ calls[2].targetId = "P-1024"
    /\ \E i \in SubmittedAt("P-1024", 1), j \in RepliesAt("P-1024", 1),
          k \in RowsAt("P-1024"), l \in SubmittedAt("P-1024", 2) :
          i < j /\ j < k /\ k < l

\* C2: delivering a change-feed INSERT twice gives the message sequence
\* that delivering it once gives; a row whose id is in the record changes
\* nothing, any other row is appended at the end; so no id is carried by
\* two rows of a record, whatever ran between two deliveries.
C2_InsertIdempotent ==
    /\ \A p \in PatientIds, payload \in Payloads :
          LET before == patients[p].messages
              once == OnInsert(patients, p, payload)
              twice == OnInsert(once, p, payload)
          IN /\ twice = once
             /\ once[p].messages =
                   IF /\ payload.kind = "insert"
                      /\ \A i \in DOMAIN before : before[i].id # payload.new.id
                   THEN Append(before, payload.new)
                   ELSE before
    /\ \A p \in PatientIds : \A i, j \in RowsAt(p) :
          patients[p].messages[i].id = patients[p].messages[j].id => i = j

\* a row that was appended, was followed by a call's message with its id
\* and was then delivered again
C2_Witness ==
    \E p \in PatientIds : \E i \in RowsAt(p) :
        /\ i < Len(patients[p].messages)
        /\ patients[p].messages[i].id \in redelivered[p]

\* the number of messages of p's record with this id
CountId(p, id) ==
    Cardinality({i \in DOMAIN patients[p].messages : patients[p].messages[i].id = id})

\* a row with `id` was appended, then a submit appended a message with the
\* same id, then the row was delivered again
DeliveredAroundSubmit(p, id) ==
    /\ \E i \in RowsAt(p) : \E c \in Started : \E j \in SubmittedAt(p, c) :
          /\ patients[p].messages[i].id = id
          /\ patients[p].messages[j].id = id
          /\ i < j
    /\ id \in redelivered[p]

\* C3 (as claimed): when INSERT events with id X were delivered before and
\* after the optimistic append of a message with id X, the record holds
\* X exactly once.
C3_ExactlyOnce ==
    \A p \in PatientIds, id \in FeedIds :
        DeliveredAroundSubmit(p, id) => CountId(p, id) = 1

\* C5: in every state, a patient is flagged exactly when the risk status
\* is HIGH or CRITICAL.
C5_FlagConsistency ==
    \A p \in PatientIds :
        patients[p].isFlagged <=> patients[p].riskStatus \in {"HIGH", "CRITICAL"}

\* an analysis result with risk CRITICAL was applied and the flag is up,
\* and one applied to a flagged record took the flag down
C5_Witness ==
    /\ patients["P-1024"].insightCall = 2
    /\ patients["P-1024"].riskStatus = "LOW"
    /\ ~patients["P-1024"].isFlagged
    /\ calls[1].response.riskLevel = "CRITICAL"
    /\ calls[1].pc \in {"saveSystem", "saveVitals", "done"}

\* C4 (as claimed): no step removes, replaces or reorders a message: each
\* patient's message sequence before a step is a prefix of the one after.
C4_MessagesAppendOnly ==
    [][\A p \in DOMAIN patients :
          IsPrefix(patients[p].messages, patients'[p].messages)]_vars

\* the collaborator raised (or timed out), or its body was malformed:
\* no JSON, or empty
FailureKinds == {"reject", "garbage", "empty"}

\* call c is a patient's text whose analysis result has been applied
Applied(c) ==
    /\ calls[c].senderRole = "PATIENT"
    /\ calls[c].type = "TEXT"
    /\ calls[c].pc \in {"saveSystem", "saveVitals", "done"}

\* C6 (as claimed): when the collaborator failed on a patient's text, the
\* record ends (no later result applied) with risk MEDIUM, not flagged,
\* confidence 0, and the call's messages are the patient's text and
\* exactly one SYSTEM reply, which is not empty.
C6_FallbackOnFailure ==
    \A c \in CallIds :
        LET p == calls[c].targetId IN
        (/\ Applied(c)
         /\ calls[c].response.kind \in FailureKinds
         /\ patients[p].insightCall = c)
        => /\ patients[p].riskStatus = "MEDIUM"
           /\ ~patients[p].isFlagged
           /\ patients[p].latestInsight.confidenceScore = "0"
           /\ Cardinality(SubmittedAt(p, c)) = 1
           /\ Cardinality(RepliesAt(p, c)) = 1
           /\ \A i \in RepliesAt(p, c) : patients[p].messages[i].content # ""

\* C7 (as claimed): no step shrinks or rewrites a vitals history, and
\* applying a result with n readings makes the history n longer.
C7_VitalsAppendOnly ==
    [][\A p \in DOMAIN patients :
          /\ IsPrefix(patients[p].vitalsHistory, patients'[p].vitalsHistory)
          /\ \A c \in DOMAIN calls :
                (/\ calls[c].pc = "resolved"
                 /\ calls'[c].pc # "resolved"
                 /\ calls[c].targetId = p)
                => Len(patients'[p].vitalsHistory) =
                      Len(patients[p].vitalsHistory) + Len(calls'[c].vitals)]_vars

\* C8: a patient's text is appended by the submit (one message more, the
\* last one being the text); when the collaborator answers it with risk
\* HIGH and one extracted vital, applying the result leaves risk HIGH, the
\* flag up, the vitals history one longer (ending with that reading) and
\* the messages one longer, ending with the SYSTEM reply: two messages for
\* the call, the text before the reply.
C8_HighScenario ==
    [][\A c \in CallIds :
          /\ (calls[c].pc = "idle" /\ calls'[c].pc # "idle") =>
                LET p == calls'[c].targetId
                    ms == patients'[p].messages
                IN /\ Len(ms) = Len(patients[p].messages) + 1
                   /\ IsPrefix(patients[p].messages, ms)
                   /\ ms[Len(ms)].sender = calls'[c].senderRole
                   /\ ms[Len(ms)].type = calls'[c].type
                   /\ ms[Len(ms)].call = c
          /\ (/\ calls[c].pc = "resolved"
              /\ calls'[c].pc # "resolved"
              /\ calls'[c].response = HighResponse) =>
                LET p == calls[c].targetId
                    ms == patients'[p].messages
                    vs == patients'[p].vitalsHistory
                IN /\ patients'[p].riskStatus = "HIGH"
                   /\ patients'[p].isFlagged
                   /\ Len(vs) = Len(patients[p].vitalsHistory) + 1
                   /\ IsPrefix(patients[p].vitalsHistory, vs)
                   /\ vs[Len(vs)].type = "GLUCOSE" /\ vs[Len(vs)].value = "220"
                   /\ Len(ms) = Len(patients[p].messages) + 1
                   /\ IsPrefix(patients[p].messages, ms)
                   /\ ms[Len(ms)].sender = "SYSTEM"
                   /\ ms[Len(ms)].content = HighResponse.suggestedResponse
                   /\ \E i \in SubmittedAt(p, c) : i < Len(ms)]_vars

\* the scenario on its own: P-1024's record two messages and one reading
\* longer than provisioned, risk HIGH, flagged
C8_Witness ==
    /\ Applied(1)
    /\ calls[1].response = HighResponse
    /\ LET r == patients["P-1024"] IN
          /\ r.riskStatus = "HIGH"
          /\ r.isFlagged
          /\ Len(r.vitalsHistory) = Len(MOCK_PATIENTS["P-1024"].vitalsHistory) + 1
          /\ Len(r.messages) = Len(MOCK_PATIENTS["P-1024"].messages) + 2
          /\ r.messages[Len(r.messages) - 1].sender = "PATIENT"
          /\ r.messages[Len(r.messages)].sender = "SYSTEM"

\* the patient's texts to p whose analysis was started
Analysed(p) ==
    {c \in CallIds : /\ calls[c].targetId = p
                     /\ calls[c].senderRole = "PATIENT"
                     /\ calls[c].type = "TEXT"
                     /\ calls[c].pc \in {"analyze", "resolved", "saveSystem", "saveVitals", "done"}}

Latest(S) == CHOOSE c \in S : \A d \in S : d <= c

\* C9 (as claimed): with no analysis in flight for a patient, the insight
\* is the one of the most recent analysed text; and of two applied
\* results, the insight is never the earlier message's.
C9_InsightRecency ==
    \A p \in PatientIds :
        /\ (Analysed(p) # {} /\ \A c \in Analysed(p) : calls[c].pc \notin {"analyze", "resolved"})
              => patients[p].insightCall = Latest(Analysed(p))
        /\ \A c, d \in Analysed(p) :
              (c < d /\ Applied(c) /\ Applied(d)) => patients[p].insightCall # c

\* C10 (as claimed): provided the analysis returns or raises, every text
\* a patient submits is eventually followed by a SYSTEM message of that
\* call in the record it was submitted to, whether the writes to the
\* store succeed or fail.
C10_EventuallyAcknowledged ==
    \A c \in CallIds :
        (/\ calls[c].pc # "idle"
         /\ calls[c].senderRole = "PATIENT"
         /\ calls[c].type = "TEXT")
        ~> (/\ calls[c].pc # "idle"
            /\ \E j \in RepliesAt(calls[c].targetId, c) :
                  \E i \in SubmittedAt(calls[c].targetId, c) : i < j)

\* every outcome of the remote call the model distinguishes
AllResponses == Responses \cup MalformedResponses

\* C11: for every outcome of the remote call (a body that maps, a
\* rejection or timeout, an empty body, a body that is no JSON, a body
\* whose mapping throws) analyzePatientInput resolves with a value of
\* insight, vitals and suggestedResponse and raises nothing; so every call
\* that awaited it went on to apply that value.
C11_AnalyzeNeverRaises ==
    /\ \A r \in AllResponses, t \in Clock :
          DOMAIN analyzePatientInput(r, t) = {"insight", "vitals", "suggestedResponse"}
    /\ \A c \in CallIds :
          Applied(c) =>
             LET res == analyzePatientInput(calls[c].response, now)
                 p == calls[c].targetId
             IN /\ Len(calls[c].vitals) = Len(res.vitals)
                /\ \E j \in RepliesAt(p, c) :
                      patients[p].messages[j].content = res.suggestedResponse

\* one call was answered with a body whose mapping throws, another with a
\* rejection, and both went on
C11_Witness ==
    /\ Applied(1) /\ calls[1].response.kind = "badvitals"
    /\ Applied(2) /\ calls[2].response.kind = "reject"

\* C12 (as claimed): the result returned when the analysis failed is
\* risk MEDIUM, confidence 0, themes ["System Error"], reasoning
\* ["Analysis failed - fallback"] (its dash written as a hyphen),
\* missingData ["Complete analysis unavailable"], action "Manual Review",
\* no vitals and a reply that is not empty.
C12_FallbackValue ==
    \A c \in CallIds :
        LET p == calls[c].targetId IN
        (/\ Applied(c)
         /\ TryThrows(calls[c].response)
         /\ patients[p].insightCall = c)
        => /\ patients[p].latestInsight.riskLevel = "MEDIUM"
           /\ patients[p].latestInsight.confidenceScore = "0"
           /\ patients[p].latestInsight.themes = <<"System Error">>
           /\ patients[p].latestInsight.reasoning = <<"Analysis failed - fallback">>
           /\ patients[p].latestInsight.missingData = <<"Complete analysis unavailable">>
           /\ patients[p].latestInsight.clinicalActionSuggestion = "Manual Review"
           /\ calls[c].vitals = <<>>
           /\ \A j \in RepliesAt(p, c) : patients[p].messages[j].content # ""

\* C13 (as claimed): every record's riskStatus and insight risk level is
\* one of LOW, MEDIUM, HIGH, CRITICAL.
C13_RiskValid ==
    \A p \in PatientIds :
        /\ patients[p].riskStatus \in RiskLevel
        /\ patients[p].latestInsight.riskLevel \in RiskLevel

\* C14 (as claimed): every entry of a vitals history has a type of the
\* fixed vocabulary.
C14_VitalVocabulary ==
    \A p \in PatientIds :
        \A i \in DOMAIN patients[p].vitalsHistory :
            patients[p].vitalsHistory[i].type \in VitalTypes

\* C15: a submit with senderRole DOCTOR appends the message to the target
\* record and sets its lastInteraction, and changes nothing else of any
\* record; the call then ends when its write settled: it never reaches the
\* analysis or the timer, changes no record again and no SYSTEM message
\* is appended for it.
C15_DoctorNoAnalysis ==
    [][\A c \in DOMAIN calls :
          /\ (/\ calls[c].pc = "idle"
              /\ calls'[c].pc # "idle"
              /\ calls'[c].senderRole = "DOCTOR") =>
                LET p == calls'[c].targetId
                    ms == patients'[p].messages
                IN /\ \A q \in DOMAIN patients \ {p} : patients'[q] = patients[q]
                   /\ Len(ms) = Len(patients[p].messages) + 1
                   /\ ms[Len(ms)].sender = "DOCTOR" /\ ms[Len(ms)].call = c
                   /\ patients'[p] =
                         [patients[p] EXCEPT
                            !.messages = Append(@, ms[Len(ms)]),
                            !.lastInteraction = patients'[p].lastInteraction]
          /\ (calls[c].pc # "idle" /\ calls[c].senderRole = "DOCTOR") =>
                /\ calls'[c].pc \in {"saveMessage", "done"}
                /\ calls'[c] # calls[c] =>
                      patients' = patients /\ isProcessing' = isProcessing
                /\ \A i \in DOMAIN patients'[calls[c].targetId].messages :
                      LET m == patients'[calls[c].targetId].messages[i]
                      IN ~(m.call = c /\ m.sender = "SYSTEM")]_vars

\* the doctor's message to P-5050 is in the record, the call has ended and
\* the record's risk, flag, insight and vitals are the provisioned ones
C15_Witness ==
    /\ calls[1].senderRole = "DOCTOR" /\ calls[1].pc = "done"
    /\ calls[1].targetId = "P-5050"
    /\ SubmittedAt("P-5050", 1) # {}
    /\ patients["P-5050"].riskStatus = MOCK_PATIENTS["P-5050"].riskStatus
    /\ patients["P-5050"].isFlagged = MOCK_PATIENTS["P-5050"].isFlagged
    /\ patients["P-5050"].latestInsight = MOCK_PATIENTS["P-5050"].latestInsight
    /\ patients["P-5050"].vitalsHistory = MOCK_PATIENTS["P-5050"].vitalsHistory

\* C16 (as claimed): when the call made for a patient's IMAGE or DOCUMENT
\* has ended (its delay is over), a SYSTEM acknowledgment of that call is
\* in the patient's record.
C16_UploadAcknowledged ==
    \A c \in CallIds :
        (/\ calls[c].senderRole = "PATIENT"
         /\ calls[c].type \in {"IMAGE", "DOCUMENT"}
         /\ calls[c].pc = "done")
        => RepliesAt(calls[c].targetId, c) # {}

\* C18: from its submit on, a patient's text is in the record; while its
\* analysis has not been applied (the call awaits saveMessage or the
\* analysis) the record holds the text without a SYSTEM reply of the
\* call; and a reply of the call stands after the text.
C18_OptimisticOrder ==
    \A c \in CallIds :
        (/\ calls[c].pc # "idle"
         /\ calls[c].senderRole = "PATIENT"
         /\ calls[c].type = "TEXT")
        => LET p == calls[c].targetId IN
           /\ SubmittedAt(p, c) # {}
           /\ calls[c].pc \in {"saveMessage", "analyze", "resolved"} => RepliesAt(p, c) = {}
           /\ calls[c].pc \notin {"saveMessage", "analyze", "resolved"} => RepliesAt(p, c) # {}
           /\ \A i \in SubmittedAt(p, c), j \in RepliesAt(p, c) : i < j

\* the first text has its reply after it; the second text is in the
\* record while its analysis is pending, without a reply
C18_Witness ==
    /\ Applied(1) /\ calls[2].pc = "analyze"
    /\ calls[2].senderRole = "PATIENT" /\ calls[2].type = "TEXT"
    /\ \E i \in SubmittedAt("P-1024", 1), j \in RepliesAt("P-1024", 1),
          k \in SubmittedAt("P-1024", 2) : i < j /\ i < k
    /\ RepliesAt("P-1024", 2) = {}

\* C17 (as claimed): a call of the handler with no target ends rejected
\* with an InvalidPatient failure, having changed no record and started
\* no write and no analysis.
C17_InvalidPatientRejected ==
    \A c \in CallIds :
        (calls[c].pc # "idle" /\ calls[c].targetId = NULL)
        => /\ calls[c].pc = "rejected:InvalidPatient"
           /\ \A p \in PatientIds : \A i \in DOMAIN patients[p].messages :
                 patients[p].messages[i].call # c

\* C19 (as claimed): the analysis of a patient's text is invoked and its
\* result applied even if a write to the store never completes.
C19_NoWaitOnPersistence ==
    \A c \in CallIds :
        (/\ calls[c].pc = "saveMessage"
         /\ calls[c].senderRole = "PATIENT"
         /\ calls[c].type = "TEXT")
        ~> Applied(c)

\* the stage of the handler a call frame is at
Stage(pc) ==
    CASE pc = "idle" -> 0
      [] pc = "saveMessage" -> 1
      [] pc \in {"analyze", "timer"} -> 2
      [] pc = "resolved" -> 3
      [] pc = "saveSystem" -> 4
      [] pc = "saveVitals" -> 5
      [] OTHER -> 6

\* C20: with every write to the store failing (an error result or a
\* throw): no call goes back to a write it has left (one attempt per
\* message and per vitals batch); when a write settles no record changes
\* and the call goes on: to the analysis or the timer after the patient's
\* saveMessage, to saveVitals or the end after the reply's saveMessage;
\* and a call that ended for a patient's text has left the text and its
\* SYSTEM reply in the record.
C20_WriteFailureNonFatal ==
    [][\A c \in CallIds :
          /\ Stage(calls'[c].pc) >= Stage(calls[c].pc)
          /\ (calls[c].pc \in {"saveMessage", "saveSystem", "saveVitals"}
                 /\ calls'[c].pc # calls[c].pc) =>
                /\ patients' = patients
                /\ SubmittedAt(calls[c].targetId, c) # {}
                /\ calls[c].pc = "saveMessage" =>
                      calls'[c].pc = IF calls[c].senderRole = "DOCTOR" THEN "done"
                                     ELSE IF calls[c].type = "TEXT" THEN "analyze"
                                     ELSE "timer"
                /\ calls[c].pc = "saveSystem" => calls'[c].pc \in {"saveVitals", "done"}
                /\ calls[c].pc = "saveVitals" => calls'[c].pc = "done"
          /\ (/\ calls'[c].pc = "done"
              /\ calls[c].senderRole = "PATIENT"
              /\ calls[c].type = "TEXT") =>
                \E i \in DOMAIN patients'[calls[c].targetId].messages :
                   \E j \in DOMAIN patients'[calls[c].targetId].messages :
                      /\ i < j
                      /\ patients'[calls[c].targetId].messages[i].call = c
                      /\ patients'[calls[c].targetId].messages[i].sender = "PATIENT"
                      /\ patients'[calls[c].targetId].messages[j].call = c
                      /\ patients'[calls[c].targetId].messages[j].sender = "SYSTEM"]_vars

\* every write failed: the first text's call has ended with its reply in
\* the record and vitals extracted, the second awaits its saveVitals
C20_Witness ==
    /\ ~isUsingPlaceholder
    /\ calls[1].pc = "done" /\ calls[1].senderRole = "PATIENT"
    /\ calls[1].type = "TEXT" /\ Len(calls[1].vitals) > 0
    /\ RepliesAt("P-1024", 1) # {}
    /\ calls[2].pc = "saveVitals"

\* C21: in every reachable state at most one change-feed subscription is
\* live, and a live one is for the current activePatientId; so after any
\* change of activePatientId (to another patient, or to none on logout)
\* the subscription of the previous patient is gone when the new one stands.
C21_SingleScopedSubscription ==
    /\ Cardinality(sub) <= 1
    /\ \A h \in sub : h.patientId # NULL /\ h.patientId = activePatientId

\* the doctor went from P-1024, whose channel delivered a row, to P-5050:
\* only P-5050's channel is live
C21_Witness ==
    /\ activePatientId = "P-5050"
    /\ sub = {[patientId |-> "P-5050", kind |-> "channel"]}
    /\ RowsAt("P-1024") # {}

\* C23: an analysis result that arrives after the active patient was
\* switched is ignored: when a call's analysis resolves while another
\* patient than the call's target is the active one, the target's record
\* is left as it is (the writes dispatched before the analysis have
\* settled by then: the call awaits saveMessage before it analyses).
C23_CancelledOnSwitch ==
    [][\A c \in CallIds :
          (/\ calls[c].pc = "resolved"
           /\ calls'[c].pc # "resolved"
           /\ activePatientId \notin {NULL, calls[c].targetId}) =>
             patients'[calls[c].targetId] = patients[calls[c].targetId]]_vars

\* C24: the reducer overwrites the risk status: in every step that applies
\* an analysis result, the target's riskStatus afterwards is the riskLevel
\* of the applied insight, whatever it was before; in particular a record
\* at CRITICAL or HIGH is at LOW after one LOW insight.
C24_RiskOverwrite ==
    [][\A c \in CallIds :
          (calls[c].pc = "resolved" /\ calls'[c].pc # "resolved") =>
             LET insight == Resolved(calls[c]).insight
                 before == patients[calls[c].targetId].riskStatus
                 after == patients'[calls[c].targetId].riskStatus
             IN /\ after = insight.riskLevel
                /\ (before \in {"CRITICAL", "HIGH"} /\ insight.riskLevel = "LOW")
                      => after = "LOW"]_vars

\* the HIGH result of the first text was applied, then the LOW result of
\* the second: the record is at LOW
C24_Witness ==
    /\ calls[1].response = HighResponse
    /\ calls[1].pc \in {"saveSystem", "saveVitals", "done"}
    /\ calls[2].pc \in {"saveSystem", "saveVitals", "done"}
    /\ calls[2].response.riskLevel = "LOW"
    /\ calls[1].targetId = "P-1024" /\ calls[2].targetId = "P-1024"
    /\ patients["P-1024"].insightCall = 2
    /\ patients["P-1024"].riskStatus = "LOW"

\* C25: in every reachable state the message ids within one patient's
\* message sequence are pairwise distinct, so every message a submit or
\* the reducer creates carries an id no message of the record had.
C25_MessageIdsUnique ==
    \A p \in DOMAIN patients :
        \A i, j \in DOMAIN patients[p].messages :
            i # j => patients[p].messages[i].id # patients[p].messages[j].id

\* C26: in every reachable state every patient's riskStatus is the
\* riskLevel of the record's latestInsight: the seed records agree, the
\* reducer sets both from one insight, and nothing else writes either.
C26_RiskMatchesInsight ==
    \A p \in DOMAIN patients :
        patients[p].riskStatus = patients[p].latestInsight.riskLevel

\* the CRITICAL result of the first text replaced the seeded MEDIUM
\* insight of P-1024, and no second text was sent
C26_Witness ==
    /\ patients["P-1024"].insightCall = 1
    /\ patients["P-1024"].latestInsight # MOCK_PATIENTS["P-1024"].latestInsight
    /\ patients["P-1024"].latestInsight.riskLevel = "CRITICAL"
    /\ patients["P-1024"].riskStatus = "CRITICAL"
    /\ calls[2].pc = "idle"

\* the step applies the whole result of call c to p's record: risk, flag,
\* insight, merged vitals and the appended SYSTEM reply
AppliesWhole(c, p) ==
    LET res == Resolved(calls[c])
        old == patients[p]
        new == patients'[p]
    IN /\ calls[c].pc = "resolved" /\ calls'[c].pc = "saveSystem"
       /\ calls[c].targetId = p
       /\ new.riskStatus = res.insight.riskLevel
       /\ new.isFlagged = IsFlagged(res.insight.riskLevel)
       /\ new.latestInsight = res.insight
       /\ new.vitalsHistory = MergeVitals(old.vitalsHistory, res.vitals)
       /\ Len(new.messages) = Len(old.messages) + 1
       /\ IsPrefix(old.messages, new.messages)
       /\ new.messages[Len(new.messages)].sender = "SYSTEM"
       /\ new.messages[Len(new.messages)].call = c
       /\ new.messages[Len(new.messages)].content = res.suggestedResponse

\* C27: the reducer is atomic: a step in which an analysis resolves applies
\* the whole result, and a step that changes a record's riskStatus,
\* isFlagged, latestInsight or vitalsHistory, or that appends a SYSTEM
\* reply, is such a step; so no state shows a part of a result without
\* the rest.
C27_ReducerAtomic ==
    [][/\ \A c \in CallIds :
            (calls[c].pc = "resolved" /\ calls'[c].pc # "resolved")
               => AppliesWhole(c, calls[c].targetId)
       /\ \A p \in DOMAIN patients :
            (\/ patients'[p].riskStatus # patients[p].riskStatus
             \/ patients'[p].isFlagged # patients[p].isFlagged
             \/ patients'[p].latestInsight # patients[p].latestInsight
             \/ patients'[p].vitalsHistory # patients[p].vitalsHistory
             \/ patients'[p].insightCall # patients[p].insightCall
             \/ \E i \in DOMAIN patients'[p].messages :
                   /\ i > Len(patients[p].messages)
                   /\ patients'[p].messages[i].sender = "SYSTEM"
                   /\ patients'[p].messages[i].call # 0)
               => \E c \in CallIds : AppliesWhole(c, p)]_vars

\* the CRITICAL result with two vitals was applied to P-1024: risk, flag,
\* insight, both vitals and the reply are in the record while the reply's
\* write is still pending
C27_Witness ==
    /\ calls[1].pc = "saveSystem"
    /\ calls[1].response.riskLevel = "CRITICAL"
    /\ LET r == patients["P-1024"] IN
          /\ r.riskStatus = "CRITICAL" /\ r.isFlagged
          /\ r.latestInsight.riskLevel = "CRITICAL"
          /\ Len(r.vitalsHistory) = Len(MOCK_PATIENTS["P-1024"].vitalsHistory) + 2
          /\ r.messages[Len(r.messages)].sender = "SYSTEM"
          /\ r.messages[Len(r.messages)].call = 1

\* record `new` is record `old` but for messages appended at its end
OnlyMessagesAppended(old, new) ==
    /\ new = [old EXCEPT !.messages = new.messages]
    /\ IsPrefix(old.messages, new.messages)

\* C28: a change-feed event changes at most the message sequence of the
\* patient the subscription was made for. For every payload and every
\* subscribed patient the callback leaves the other records as they are
\* and changes nothing but the messages of the subscribed one (risk, flag,
\* insight, vitals and lastInteraction stay), and a payload that is null
\* or has no new row changes nothing; and every step of the program that
\* is no step of a handleMessageSend call changes no record but by
\* appending one row to the messages of a patient with a live subscription.
C28_FeedFrame ==
    [][/\ \A payload \in Payloads : \A a \in PatientIds :
            LET next == OnInsert(patients, a, payload) IN
               /\ \A q \in DOMAIN patients : q # a => next[q] = patients[q]
               /\ OnlyMessagesAppended(patients[a], next[a])
               /\ payload.kind # "insert" => next = patients
       /\ calls' = calls =>
            \A p \in DOMAIN patients :
               /\ OnlyMessagesAppended(patients[p], patients'[p])
               /\ Len(patients'[p].messages) <= Len(patients[p].messages) + 1
               /\ patients'[p] # patients[p] =>
                     /\ \E h \in sub : h.patientId = p /\ h.kind = "channel"
                     /\ patients'[p].messages[Len(patients'[p].messages)].call = 0]_vars

\* the channel for P-5050 delivered a row: it stands at the end of
\* P-5050's messages, the rest of that record and all of P-1024's are as
\* seeded
C28_Witness ==
    /\ RowsAt("P-5050") = {Len(patients["P-5050"].messages)}
    /\ patients["P-5050"] =
          [MOCK_PATIENTS["P-5050"] EXCEPT !.messages = patients["P-5050"].messages]
    /\ patients["P-1024"] = MOCK_PATIENTS["P-1024"]

\* C29: while the analysis of a patient's text is in flight isProcessing
\* is true, and at most one analysis is in flight at a time.
C29_ProcessingWhileAnalysing ==
    /\ \A c \in CallIds : calls[c].pc = "analyze" => isProcessing
    /\ Cardinality({c \in CallIds : calls[c].pc = "analyze"}) <= 1

\* C30: an analysis result goes to the record of the patient the message
\* was sent to, whoever is active when the analysis resolves: in the step
\* that applies call c's result, one record then holds the message call c
\* submitted together with the insight and the SYSTEM reply of call c, and
\* every other record is unchanged.
C30_ResultRouting ==
    [][\A c \in DOMAIN calls :
          (calls[c].pc = "resolved" /\ calls'[c].pc # "resolved") =>
             LET t == calls[c].targetId
                 new == patients'[t]
             IN /\ \E i \in DOMAIN new.messages :
                      new.messages[i].call = c /\ new.messages[i].sender # "SYSTEM"
                /\ new.insightCall = c
                /\ new.messages[Len(new.messages)].call = c
                /\ new.messages[Len(new.messages)].sender = "SYSTEM"
                /\ \A q \in DOMAIN patients : q # t => patients'[q] = patients[q]]_vars

\* the doctor wrote to P-5050 at the first clock value; the result of the
\* patient's text to P-1024 was applied one tick later (its reply's id is
\* the clock plus one) and stands in P-1024's record, while P-5050, the
\* active patient, has its seeded insight and no reply
C30_Witness ==
    /\ activePatientId = "P-5050"
    /\ calls[1].senderRole = "PATIENT" /\ calls[1].targetId = "P-1024"
    /\ calls[2].senderRole = "DOCTOR" /\ calls[2].targetId = "P-5050"
    /\ \E i \in SubmittedAt("P-5050", 2) :
          patients["P-5050"].messages[i].id = ToString(T0)
    /\ \E j \in RepliesAt("P-1024", 1) :
          patients["P-1024"].messages[j].id = ToString(T0 + 2)
    /\ patients["P-1024"].insightCall = 1
    /\ patients["P-5050"].insightCall = 0
    /\ patients["P-5050"].latestInsight = MOCK_PATIENTS["P-5050"].latestInsight
    /\ RepliesAt("P-5050", 1) = {}

====
